---- MODULE Spec2Model ----
(***************************************************************************)
(* irq_timings.c: a kernel module that measures the time between edge      *)
(* interrupts on registered gpio pins and hands the timings to userspace   *)
(* through one sysfs class attribute per pin.                              *)
(*                                                                         *)
(* The model keeps the driver's heap explicit: gpio_data objects,          *)
(* TimingsNode objects and timing buffers are entries of three heaps       *)
(* (sequences indexed by allocation number, NULL = 0, never reused), each  *)
(* with a count of the kfree calls made on it.  The kernel services the    *)
(* driver calls (gpiolib, sysfs class files, request_irq/free_irq, the     *)
(* mutex, ktime_get) are modelled at the driver's call sites.              *)
(***************************************************************************)
EXTENDS Integers, Sequences, FiniteSets, TLC

(***************************************************************************)
(* Program constants.                                                      *)
(***************************************************************************)
GPIO_COUNT == 100
EINVAL == 22
ERESTARTSYS == 512
NSEC_PER_USEC == 1000
\* sizeof(GPIO_COUNT): the size of an int
SIZEOF_INT == 4
\* sizeof(GPIO_ATTR_PREFIX): "gpio" and its terminating NUL
SIZEOF_PREFIX == 5

(***************************************************************************)
(* Bounds.  BUFFER_SIZE (512 in the source, line 15) and                   *)
(* MAX_READ_QUEUE_SIZE (10 in the source, line 16) are scaled down so that *)
(* buffer rotation and queue overflow happen within a few events; the      *)
(* timings are unsigned int, 32 bits in the source, UINT_BITS bits here.   *)
(***************************************************************************)
BUFFER_SIZE == 2
MAX_READ_QUEUE_SIZE == 2
\* the page sysfs hands to gpio_show: 4096 bytes for the 512 timings of the
\* source, 8 bytes a timing
PAGE_SIZE == 8 * BUFFER_SIZE
UINT_BITS == 8
\* handler invocations in one behaviour
MaxEvents == 8
\* sysfs calls (register, unregister, read of a gpio file) in one behaviour
MaxCalls == 4
\* long gaps between edges in one behaviour of SpecClock
MaxLongGaps == 1
\* handler invocations in one behaviour of SpecRace
MaxRaceEvents == 3
\* kmalloc failures in one behaviour of SpecAlloc
MaxAllocFails == 1

UINT_MOD == 2 ^ UINT_BITS

NULL == 0
\* the content of kmalloc'ed memory that was never written
UNINIT == -1
\* the input of a store call that kstrtoul rejects
BAD == -2

\* user contexts that write to register/unregister and read the gpio files
Procs == {1, 2}
\* the interrupt context, as the owner of a mutex
IRQ_CTX == Cardinality(Procs) + 1

\* the worked example: the pin it registers and the times of its edges, in us
ScenarioPins == {3}
ScenarioEdges == <<0, 100, 250, 400>>

\* what userspace writes to register/unregister
Inputs == {BAD, GPIO_COUNT - 1, GPIO_COUNT}
\* the pins a behaviour can register
ModelPins == {g \in Inputs \cup ScenarioPins : g >= 0 /\ g < GPIO_COUNT}
\* the time from edge i to the next one, in ns, of the edge train fed to a
\* pin: 2.5 us, 3.5 us, ... (not whole microseconds, each within an unsigned int)
EdgeDelta(i) == (2 + (i % (UINT_MOD - 3))) * NSEC_PER_USEC + 500
\* the time between two edges, in ns: too many microseconds for an unsigned int
LongDelta == (UINT_MOD + 1) * NSEC_PER_USEC

Gpios == 0 .. (GPIO_COUNT - 1)

(***************************************************************************)
(* Pure helpers.                                                           *)
(***************************************************************************)
DigitChar == <<"0", "1", "2", "3", "4", "5", "6", "7", "8", "9">>

RECURSIVE Digits(_)
\* the decimal text of n, as printed by %u / %lu
Digits(n) ==
    IF n < 10 THEN <<DigitChar[n + 1]>>
    ELSE Digits(n \div 10) \o <<DigitChar[(n % 10) + 1]>>

IsDigit(c) == \E i \in 1 .. 10 : DigitChar[i] = c

RECURSIVE DigitsValue(_)
\* kstrtoul(s, 10, ..): the value of a decimal text, BAD when it is not one
DigitsValue(s) ==
    IF s = <<>> THEN 0
    ELSE LET c    == s[Len(s)]
             rest == DigitsValue(SubSeq(s, 1, Len(s) - 1))
         IN  IF rest = BAD \/ ~IsDigit(c) THEN BAD
             ELSE 10 * rest + ((CHOOSE i \in 1 .. 10 : DigitChar[i] = c) - 1)

\* snprintf(dst, size, ..): at most size-1 characters are stored
Truncate(s, size) == SubSeq(s, 1, IF Len(s) < size - 1 THEN Len(s) ELSE size - 1)

GPIO_ATTR_NAME_SIZE == SIZEOF_PREFIX + SIZEOF_INT

\* the digits part of the attribute name "gpio<N>" built by register_store
AttrName(gpio) == Truncate(<<"g", "p", "i", "o">> \o Digits(gpio), GPIO_ATTR_NAME_SIZE)

\* gpio_show: the gpio id recovered from the attribute name
ShowGpioId(name) ==
    LET tail == SubSeq(name, SIZEOF_PREFIX, Len(name))
        id   == Truncate(tail, SIZEOF_INT)
    IN  IF id = <<>> THEN BAD ELSE DigitsValue(id)

\* mutant: the delta in milliseconds
ktime_ms_delta(later, earlier) == (later - earlier) \div (1000 * NSEC_PER_USEC)

\* ktime_us_delta(later, earlier)
ktime_us_delta(later, earlier) == (later - earlier) \div NSEC_PER_USEC

\* the conversion of the s64 delta to the unsigned int stored in writeBuf
ToUint(v) == v % UINT_MOD

\* gpio_to_irq(): the platform's gpio -> irq line mapping
gpio_to_irq(gpio) == gpio

\* the count argument of a store call: the digits and the newline
CountOf(input) == IF input = BAD THEN 1 ELSE Len(Digits(input)) + 1

VARIABLES
    clock,             \* the monotonic clock, ns
    env,               \* the environment: what it may still do to the driver
    registered_gpios,  \* the array: gpio -> gpio_data pointer
    gd,                \* heap of struct gpio_data
    nodes,             \* heap of struct TimingsNode
    bufs,              \* heap of timing buffers (writeBuf / node->timings)
    gpioHeld,          \* gpiolib: the requested gpios
    files,             \* sysfs: the class files, [gpio, attr] (attr: its gpio_data)
    irqActs,           \* genirq: the installed actions, [irq, dev]
    misuse,            \* releases of something not held (the kernel WARNs)
    hpc,               \* per irq line: where the handler is
    hloc,              \* per irq line: the handler's locals
    pc,                \* per user context: where the call is
    loc,               \* per user context: the call's locals and result
    hist,              \* history, per gpio_data: what was fed, completed, dequeued
    events,            \* handler invocations so far
    calls              \* sysfs calls so far

vars == <<clock, env, registered_gpios, gd, nodes, bufs, gpioHeld, files, irqActs,
          misuse, hpc, hloc, pc, loc, hist, events, calls>>

\* the collaborators' state
kernel == <<gpioHeld, files, irqActs, misuse>>
\* the driver's memory
heap == <<gd, nodes, bufs>>

Lines == {gpio_to_irq(g) : g \in ModelPins}

(***************************************************************************)
(* The heaps.                                                              *)
(***************************************************************************)
\* kmalloc(BUFFER_SIZE * sizeof(unsigned int)): memory that was never written
NewBuf == [data |-> [i \in 0 .. (BUFFER_SIZE - 1) |-> UNINIT], frees |-> 0]

\* kfree(p) on one heap: kfree(NULL) does nothing
kfree(h, p) == IF p = NULL THEN h ELSE [h EXCEPT ![p].frees = @ + 1]

\* kfree of every object of the set ps
kfreeAll(h, ps) == [i \in DOMAIN h |-> IF i \in ps THEN [h[i] EXCEPT !.frees = @ + 1] ELSE h[i]]

RECURSIVE Walk(_, _, _)
\* the nodes met following next from n (at most fuel of them)
Walk(nd, n, fuel) ==
    IF n = NULL \/ fuel = 0 THEN <<>>
    ELSE <<n>> \o Walk(nd, nd[n].next, fuel - 1)

\* the read queue of gpio_data g, head first
QueueOf(g, nd) == Walk(nd, g.readQueue_head, Len(nd) + 1)

Range(s) == {s[i] : i \in DOMAIN s}

\* struct gpio_data as register_store fills it in
NewGpioData(gpio, writeBuf, now) ==
    [name              |-> AttrName(gpio),
     irq_number        |-> UNINIT,
     writeBuf          |-> writeBuf,
     writeI            |-> 0,
     lastInterruptTime |-> now,
     readQueue_head    |-> NULL,
     readQueue_tail    |-> NULL,
     readQueueSize     |-> 0,
     readQueueLock     |-> NULL,
     nameFrees         |-> 0,
     frees             |-> 0]

\* the history kept for one gpio_data
NewHist(gpio, now) ==
    [gpio      |-> gpio,
     t0        |-> now,
     ts        |-> <<>>,
     completed |-> <<>>,
     dropped   |-> <<>>,
     appended  |-> <<>>,
     evicted   |-> <<>>,
     popped    |-> <<>>,
     returned  |-> <<>>,
     empties   |-> {}]

\* the locals of a handler that is not running
HIdle == [data |-> NULL, timingsNode |-> NULL, on |-> NULL]

\* a user context before its first call
NoCall ==
    [op |-> "none", input |-> BAD, gpio |-> BAD, attr |-> NULL,
     timingsNode |-> NULL, ret |-> 0, failed |-> "none"]

\* the environment of Spec: edges at short intervals, no allocation failure,
\* register and unregister written one at a time, the handler on a cpu of its
\* own
Quiet ==
    [longGaps   |-> 0,      \* long gaps between edges it may still make
     allocFails |-> 0,      \* kmalloc calls it may still fail
     overlap    |-> FALSE,  \* register/unregister are written concurrently
     sameCpu    |-> FALSE,  \* the interrupt may arrive on a cpu running a call
     scenario   |-> FALSE]  \* the edges are those of the worked example

\* the state after irqts_init, but for the environment
Loaded ==
    /\ clock = 0
    /\ registered_gpios = [g \in Gpios |-> NULL]
    /\ gd = <<>>
    /\ nodes = <<>>
    /\ bufs = <<>>
    /\ gpioHeld = {}
    /\ files = {}
    /\ irqActs = {}
    /\ misuse = {}
    /\ hpc = [l \in Lines |-> "idle"]
    /\ hloc = [l \in Lines |-> HIdle]
    /\ pc = [p \in Procs |-> "idle"]
    /\ loc = [p \in Procs |-> NoCall]
    /\ hist = <<>>
    /\ events = 0
    /\ calls = 0

Init == Loaded /\ env = Quiet

\* where a context is in irqts_exit, and after it
ExitPcs == {"x_irq", "x_file", "x_gpio", "x_data", "unloaded"}

\* a user context starts a call; of two idle contexts the first one does
MayStart(self) ==
    /\ pc[self] = "idle"
    /\ calls < MaxCalls
    /\ \A p \in Procs : pc[p] \notin ExitPcs
    /\ \A p \in Procs : p < self => pc[p] # "idle"

\* an oops in the interrupt handler: the kernel panics and nothing runs on
Panicked == \E l \in Lines : hpc[l] = "oops"

\* line 296: the handler is a hard interrupt handler; it runs on the stack of
\* whatever its cpu was running, which goes on only when the handler returns
InterruptedBy(l) == IF hpc[l] \in {"idle", "oops"} THEN NULL ELSE hloc[l].on

\* the user contexts that can take a step
Runnable ==
    {p \in Procs : ~Panicked /\ \A l \in Lines : InterruptedBy(l) # p}

\* the irq lines whose handler can take a step
RunnableLines == IF Panicked THEN {} ELSE Lines

\* the calls an interrupt can arrive on top of
Interruptible ==
    {NULL} \cup (IF env.sameCpu THEN {p \in Procs : pc[p] \notin {"idle", "oops", "unloaded"}}
                 ELSE {})

\* registered_gpios[gpio] as the call of self reads it
Reg(self) == registered_gpios[loc[self].gpio]

\* a NULL pointer is dereferenced in the call of self: the kernel kills the
\* task where it is, with whatever it holds
Killed(self) ==
    /\ pc' = [pc EXCEPT ![self] = "oops"]
    /\ UNCHANGED <<clock, env, registered_gpios, heap, kernel, hpc, hloc, loc, hist,
                   events, calls>>

(***************************************************************************)
(* gpio_irq_handler.  One invocation at a time per irq line.               *)
(***************************************************************************)
\* mutant: the buffer is handed on one interval short
WriteBufFilled_early(writeI) == writeI >= BUFFER_SIZE - 1

\* line 100: the write buffer is filled
WriteBufFilled(writeI) == writeI >= BUFFER_SIZE

\* mutant: the queue is let grow one record beyond its maximum
QueueOverfull_late(size) == size > MAX_READ_QUEUE_SIZE + 1

\* mutant: the head is evicted when the queue is just full
QueueOverfull_early(size) == size >= MAX_READ_QUEUE_SIZE

\* line 130: the queue is over its maximum
QueueOverfull(size) == size > MAX_READ_QUEUE_SIZE

\* mutant: the node replaces the queue instead of being linked at its tail
LinkTail_head(g, n) == [g EXCEPT !.readQueue_head = n, !.readQueue_tail = n]

\* lines 119-128: gpio_data g with node n linked at the tail
LinkTail(g, n) ==
    IF g.readQueue_head = NULL
    THEN [g EXCEPT !.readQueue_head = n, !.readQueue_tail = n]
    ELSE [g EXCEPT !.readQueue_tail = n]

\* mutant: the old tail is not linked to the new node
LinkNext_unlinked(g, nd, n) == nd

\* line 126: the old tail's next pointer
LinkNext(g, nd, n) ==
    IF g.readQueue_head = NULL THEN nd
    ELSE [nd EXCEPT ![g.readQueue_tail].next = n]

\* lines 132-136: gpio_data g with its head node removed by the handler
EvictHead(g, nd) == [g EXCEPT !.readQueue_head = nd[g.readQueue_head].next]

\* the kmalloc calls among sites that fail in one step: none, or one of them
AllocFailures(sites) == {"none"} \cup (IF env.allocFails > 0 THEN sites ELSE {})

\* what a read or write through pointer d to a gpio_data does: freed memory
\* may still hold what it held, or the access may fault
Outcomes(d) == IF gd[d].frees > 0 THEN {"stale", "oops"} ELSE {"ok"}

\* ktime_get() at the edge that starts a handler invocation
EdgeTime(long) ==
    IF env.scenario THEN ScenarioEdges[events + 1] * NSEC_PER_USEC
    ELSE clock + (IF long THEN LongDelta ELSE EdgeDelta(events))

\* the edges the environment makes in one behaviour
EventBudget ==
    IF env.scenario THEN Len(ScenarioEdges)
    ELSE IF env.overlap THEN MaxRaceEvents
    ELSE MaxEvents

\* the handler faults: an oops in interrupt context
HOops(l, timeNow) ==
    /\ hpc' = [hpc EXCEPT ![l] = "oops"]
    /\ clock' = timeNow
    /\ events' = events + 1

\* lines 91-109: the interval is stored; a filled buffer becomes a node and a
\* new write buffer is allocated.  Neither kmalloc is checked: a NULL node is
\* dereferenced at line 104, a NULL write buffer at line 96 of the next call.
HEvent(l) ==
    /\ hpc[l] = "idle"
    /\ events < EventBudget
    /\ \E act \in irqActs, long \in {b \in BOOLEAN : b => env.longGaps > 0},
          fail \in AllocFailures({"timingsNode", "writeBuf"}), on \in Interruptible :
        /\ act.irq = l
        /\ \E seen \in Outcomes(act.dev) :
           LET d       == act.dev
               timeNow == EdgeTime(long)
               g       == gd[d]
               val     == ToUint(ktime_us_delta(timeNow, g.lastInterruptTime))
               written == [bufs EXCEPT ![g.writeBuf].data[g.writeI] = val]
               node    == Len(nodes) + 1
               newBuf  == IF fail = "writeBuf" THEN NULL ELSE Len(bufs) + 1
               spent   == [env EXCEPT !.longGaps = IF long THEN @ - 1 ELSE @,
                                      !.allocFails = IF fail = "none" THEN @ ELSE @ - 1]
           IN  IF seen = "oops" \/ g.writeBuf = NULL
               THEN /\ fail = "none" /\ on = NULL
                    /\ HOops(l, timeNow)
                    /\ env' = spent
                    /\ UNCHANGED <<heap, hloc, hist>>
               ELSE IF ~WriteBufFilled(g.writeI + 1)
               THEN /\ fail = "none" /\ on = NULL
                    /\ clock' = timeNow
                    /\ env' = spent
                    /\ events' = events + 1
                    /\ bufs' = written
                    /\ gd' = [gd EXCEPT ![d].lastInterruptTime = timeNow,
                                        ![d].writeI = g.writeI + 1]
                    /\ hist' = [hist EXCEPT ![d].ts = Append(@, timeNow)]
                    /\ UNCHANGED <<nodes, hloc, hpc>>
               ELSE IF fail = "timingsNode"
               THEN /\ on = NULL
                    /\ HOops(l, timeNow)
                    /\ env' = spent
                    /\ bufs' = written
                    /\ gd' = [gd EXCEPT ![d].lastInterruptTime = timeNow,
                                        ![d].writeI = g.writeI + 1]
                    /\ hist' = [hist EXCEPT ![d].ts = Append(@, timeNow)]
                    /\ UNCHANGED <<nodes, hloc>>
               ELSE /\ clock' = timeNow
                    /\ env' = spent
                    /\ events' = events + 1
                    /\ nodes' = Append(nodes, [timings |-> g.writeBuf,
                                               next |-> NULL, frees |-> 0])
                    /\ bufs' = IF fail = "writeBuf" THEN written
                               ELSE Append(written, NewBuf)
                    /\ gd' = [gd EXCEPT ![d].lastInterruptTime = timeNow,
                                        ![d].writeBuf = newBuf,
                                        ![d].writeI = 0]
                    /\ hloc' = [hloc EXCEPT ![l] = [data |-> d, timingsNode |-> node,
                                                    on |-> on]]
                    /\ hpc' = [hpc EXCEPT ![l] = "lock"]
                    /\ hist' = [hist EXCEPT
                           ![d].ts = Append(@, timeNow),
                           ![d].completed = Append(@,
                               [node |-> node, vals |-> written[g.writeBuf].data])]
    /\ UNCHANGED <<registered_gpios, kernel, pc, loc, calls>>

\* line 111: mutex_lock_interruptible takes the free lock
HLock(l) ==
    /\ hpc[l] = "lock"
    /\ gd[hloc[l].data].readQueueLock = NULL
    /\ gd' = [gd EXCEPT ![hloc[l].data].readQueueLock = IRQ_CTX]
    /\ hpc' = [hpc EXCEPT ![l] = "append"]
    /\ UNCHANGED <<clock, env, registered_gpios, nodes, bufs, kernel, hloc, pc, loc,
                   hist, events, calls>>

\* lines 111-117: waiting for the held lock is interrupted by a signal; the
\* filled buffer and its node are freed
HLockInterrupted(l) ==
    /\ hpc[l] = "lock"
    /\ gd[hloc[l].data].readQueueLock # NULL
    /\ LET n == hloc[l].timingsNode
       IN  /\ bufs' = kfree(bufs, nodes[n].timings)
           /\ nodes' = kfree(nodes, n)
           /\ hist' = [hist EXCEPT ![hloc[l].data].dropped = Append(@, n)]
    /\ hpc' = [hpc EXCEPT ![l] = "idle"]
    /\ hloc' = [hloc EXCEPT ![l] = HIdle]
    /\ UNCHANGED <<clock, env, registered_gpios, gd, kernel, pc, loc, events, calls>>

\* lines 119-128: the node is linked at the tail of the read queue
HAppend(l) ==
    /\ hpc[l] = "append"
    /\ LET d == hloc[l].data
           n == hloc[l].timingsNode
       IN  /\ nodes' = LinkNext(gd[d], nodes, n)
           /\ gd' = [gd EXCEPT ![d] = LinkTail(gd[d], n)]
           /\ hist' = [hist EXCEPT ![d].appended = Append(@, n)]
    /\ hpc' = [hpc EXCEPT ![l] = "evict"]
    /\ UNCHANGED <<clock, env, registered_gpios, bufs, kernel, hloc, pc, loc, events, calls>>

\* lines 130-140: the size is counted up, the head is removed and freed when
\* the queue is over its maximum, and the lock is released
HEvict(l) ==
    /\ hpc[l] = "evict"
    /\ LET d    == hloc[l].data
           g    == gd[d]
           head == g.readQueue_head
       IN  IF QueueOverfull(g.readQueueSize + 1)
           THEN /\ bufs' = kfree(bufs, nodes[head].timings)
                /\ nodes' = kfree(nodes, head)
                /\ gd' = [gd EXCEPT ![d] = [EvictHead(g, nodes) EXCEPT
                                                  !.readQueueLock = NULL]]
                /\ hist' = [hist EXCEPT ![d].evicted = Append(@, head)]
           ELSE /\ gd' = [gd EXCEPT ![d].readQueueSize = g.readQueueSize + 1,
                                    ![d].readQueueLock = NULL]
                /\ UNCHANGED <<bufs, nodes, hist>>
    /\ hpc' = [hpc EXCEPT ![l] = "idle"]
    /\ hloc' = [hloc EXCEPT ![l] = HIdle]
    /\ UNCHANGED <<clock, env, registered_gpios, kernel, pc, loc, events, calls>>

(***************************************************************************)
(* gpio_show: a read of /sys/class/irq_timings/gpio<N>.                    *)
(***************************************************************************)
DrainPcs == {"d_lock", "d_pop", "d_show"}

\* a call returns: the context is idle again and keeps the call's result
Return(self, l, ret) ==
    /\ pc' = [pc EXCEPT ![self] = "idle"]
    /\ loc' = [loc EXCEPT ![self] = [l EXCEPT !.ret = ret]]

\* line 197: the kernel's snprintf(buf, size, ..) of text.  What fits in
\* size - 1 characters is stored and the length of the whole text is returned;
\* size is a size_t: PAGE_SIZE - written below 0 is a size above INT_MAX, for
\* which the kernel's vsnprintf stores nothing and returns 0
Snprintf(size, text) ==
    IF size < 0 THEN [stored |-> <<>>, status |-> 0]
    ELSE [stored |-> Truncate(text, size), status |-> Len(text)]

RECURSIVE ShowLoop(_, _, _, _)
\* lines 195-214: the timings printed "%u\n" each into what is left of the
\* page; the loop ends early only when written is exactly PAGE_SIZE
ShowLoop(timings, bufI, written, out) ==
    IF bufI >= BUFFER_SIZE THEN [written |-> written, out |-> out]
    ELSE LET r == Snprintf(PAGE_SIZE - written, Digits(timings[bufI]) \o <<"\n">>)
             w == written + r.status
         IN  IF w = PAGE_SIZE
             THEN [written |-> w, out |-> out \o r.stored]
             ELSE ShowLoop(timings, bufI + 1, w, out \o r.stored)

\* mutant: the head pointer is not moved on
PopHead_stale(g, nd) == [g EXCEPT !.readQueueSize = @ - 1]

\* lines 181-191: gpio_data g with its head node removed
PopHead(g, nd) ==
    LET n == g.readQueue_head
    IN  IF g.readQueue_tail = n
        THEN [g EXCEPT !.readQueue_head = NULL, !.readQueue_tail = NULL,
                       !.readQueueSize = @ - 1]
        ELSE [g EXCEPT !.readQueue_head = nd[n].next, !.readQueueSize = @ - 1]

\* mutant: the early return forgets the unlock
ShowEmpty_locked(g) == g

\* lines 176-180: gpio_data g when gpio_show finds the queue empty
ShowEmpty(g) == [g EXCEPT !.readQueueLock = NULL]

\* lines 157-169: the gpio id is read back from the attribute name and the
\* gpio's data looked up
DBegin(self) ==
    /\ MayStart(self)
    /\ \E f \in files : \E seen \in Outcomes(f.attr) :
        LET gpio == ShowGpioId(f.name)
            l    == [NoCall EXCEPT !.op = "show", !.attr = f.attr, !.gpio = gpio]
        IN  IF seen = "oops"
            THEN /\ pc' = [pc EXCEPT ![self] = "oops"]
                 /\ loc' = [loc EXCEPT ![self] = l]
            ELSE IF gpio = BAD \/ registered_gpios[gpio] = NULL
            THEN Return(self, l, -1)
            ELSE /\ pc' = [pc EXCEPT ![self] = "d_lock"]
                 /\ loc' = [loc EXCEPT ![self] = l]
    /\ calls' = calls + 1
    /\ UNCHANGED <<clock, env, registered_gpios, heap, kernel, hpc, hloc, hist, events>>

\* line 172: mutex_lock_interruptible takes the free lock
DLock(self) ==
    /\ pc[self] = "d_lock"
    /\ IF Reg(self) = NULL THEN Killed(self)
       ELSE
            /\ LET d == registered_gpios[loc[self].gpio]
               IN  /\ gd[d].readQueueLock = NULL
                   /\ gd' = [gd EXCEPT ![d].readQueueLock = self]
            /\ pc' = [pc EXCEPT ![self] = "d_pop"]
            /\ UNCHANGED <<clock, env, registered_gpios, nodes, bufs, kernel, hpc, hloc, loc,
                           hist, events, calls>>

\* mutant: the interrupted read returns as the owner of the lock
DLockInterrupted_owner(self) ==
    /\ pc[self] = "d_lock"
    /\ Reg(self) # NULL
    /\ gd[Reg(self)].readQueueLock # NULL
    /\ gd' = [gd EXCEPT ![Reg(self)].readQueueLock = self]
    /\ Return(self, loc[self], -ERESTARTSYS)
    /\ UNCHANGED <<clock, env, registered_gpios, nodes, bufs, kernel, hpc, hloc, hist,
                   events, calls>>

\* lines 172-175: waiting for the held lock is interrupted by a signal
DLockInterrupted(self) ==
    /\ pc[self] = "d_lock"
    /\ IF Reg(self) = NULL THEN Killed(self)
       ELSE
            /\ gd[registered_gpios[loc[self].gpio]].readQueueLock # NULL
            /\ Return(self, loc[self], -ERESTARTSYS)
            /\ UNCHANGED <<clock, env, registered_gpios, heap, kernel, hpc, hloc, hist, events, calls>>

\* lines 176-192: with the lock held, an empty queue returns 0; otherwise the
\* head node is taken off the queue; the lock is released
DPop(self) ==
    /\ pc[self] = "d_pop"
    /\ IF Reg(self) = NULL THEN Killed(self)
       ELSE
            /\ LET d == registered_gpios[loc[self].gpio]
                   g == gd[d]
               IN  IF g.readQueue_head = NULL
                   THEN /\ gd' = [gd EXCEPT ![d] = ShowEmpty(g)]
                        /\ Return(self, loc[self], 0)
                        /\ hist' = [hist EXCEPT ![d].empties =
                                       @ \cup {Len(hist[d].popped)}]
                   ELSE /\ gd' = [gd EXCEPT ![d] = [PopHead(g, nodes) EXCEPT !.readQueueLock = NULL]]
                        /\ pc' = [pc EXCEPT ![self] = "d_show"]
                        /\ loc' = [loc EXCEPT ![self].timingsNode = g.readQueue_head]
                        /\ hist' = [hist EXCEPT ![d].popped = Append(@, g.readQueue_head)]
            /\ UNCHANGED <<clock, env, registered_gpios, nodes, bufs, kernel, hpc, hloc, events, calls>>

\* lines 194-220: the node's timings are printed, the node is freed, the
\* number of bytes is returned
DShow(self) ==
    /\ pc[self] = "d_show"
    /\ LET n   == loc[self].timingsNode
           res == ShowLoop(bufs[nodes[n].timings].data, 0, 0, <<>>)
       IN  /\ bufs' = kfree(bufs, nodes[n].timings)
           /\ nodes' = kfree(nodes, n)
           /\ hist' = [hist EXCEPT ![loc[self].attr].returned =
                          Append(@, [node |-> n, out |-> res.out, ret |-> res.written])]
           /\ Return(self, loc[self], res.written)
    /\ UNCHANGED <<clock, env, registered_gpios, gd, kernel, hpc, hloc, events, calls>>

(***************************************************************************)
(* free_gpio_data.                                                         *)
(***************************************************************************)
\* mutant: only the head node of the queue is freed
FreedNodes_head(gpio) ==
    IF registered_gpios[gpio] = NULL THEN {}
    ELSE {gd[registered_gpios[gpio]].readQueue_head} \ {NULL}

\* lines 72-79: the nodes of the read queue of gpio's data
FreedNodes(gpio) ==
    IF registered_gpios[gpio] = NULL THEN {}
    ELSE Range(QueueOf(gd[registered_gpios[gpio]], nodes))

\* lines 65-86
free_gpio_data(gpio) ==
    LET d == registered_gpios[gpio]
    IN  IF d = NULL
        THEN UNCHANGED <<registered_gpios, gd, nodes, bufs>>
        ELSE /\ nodes' = kfreeAll(nodes, FreedNodes(gpio))
             /\ bufs' = kfree(kfreeAll(bufs, {nodes[n].timings : n \in FreedNodes(gpio)}),
                              gd[d].writeBuf)
             /\ gd' = [gd EXCEPT ![d].nameFrees = @ + 1, ![d].frees = @ + 1]
             /\ registered_gpios' = [registered_gpios EXCEPT ![gpio] = NULL]

(***************************************************************************)
(* register_store and unregister_store: writes to the class's register and *)
(* unregister files.                                                       *)
(***************************************************************************)
RegPcs == {"r_request", "r_direction", "r_alloc", "r_file", "r_irq",
           "r_unwind_file", "r_unwind_data", "r_unwind_gpio"}
UnregPcs == {"u_irq", "u_file", "u_gpio", "u_data"}

\* no register or unregister call is in progress
CtlIdle == \A p \in Procs : pc[p] \notin (RegPcs \cup UnregPcs)

\* a write to register or unregister may start: the environment of Spec
\* writes them one at a time
MayWrite == env.overlap \/ CtlIdle

\* what is written to register/unregister
Written == IF env.scenario THEN ScenarioPins ELSE Inputs

\* mutant: the last gpio is taken to be out of range
InRange_short(gpio) == gpio < GPIO_COUNT - 1

\* lines 242 and 335: the gpio is within GPIO_COUNT
InRange(gpio) == gpio < GPIO_COUNT

\* mutant: the check for a registered gpio is left out
AlreadyRegistered_never(gpio) == FALSE

\* line 249: the gpio is already registered
AlreadyRegistered(gpio) == registered_gpios[gpio] # NULL

\* line 342: the gpio is not registered
NotRegistered(gpio) == registered_gpios[gpio] = NULL

\* mutant: a failed request_irq jumps past the removal of the class file
UnwindAfter_skip(step) ==
    IF step = "gpio_direction_input" THEN "r_unwind_gpio" ELSE "r_unwind_data"

\* lines 266, 291, 302: the cleanup label a failed step jumps to
UnwindAfter(step) ==
    IF step = "request_irq" THEN "r_unwind_file"
    ELSE IF step = "class_create_file" THEN "r_unwind_data"
    ELSE "r_unwind_gpio"

\* what a store call starts with
StoreCall(op, input) == [NoCall EXCEPT !.op = op, !.input = input, !.gpio = input]

\* lines 232-253: the input is parsed and checked
RegisterBegin(self) ==
    /\ MayStart(self)
    /\ MayWrite
    /\ \E input \in Written :
        LET l == StoreCall("register", input)
        IN  IF input = BAD THEN Return(self, l, -EINVAL)
            ELSE IF ~InRange(input) THEN Return(self, l, -EINVAL)
            ELSE IF AlreadyRegistered(input) THEN Return(self, l, -1)
            ELSE /\ pc' = [pc EXCEPT ![self] = "r_request"]
                 /\ loc' = [loc EXCEPT ![self] = l]
    /\ calls' = calls + 1
    /\ UNCHANGED <<clock, env, registered_gpios, heap, kernel, hpc, hloc, hist, events>>

\* lines 255-260: gpio_request
RegRequest(self) ==
    /\ pc[self] = "r_request"
    /\ \E ok \in BOOLEAN :
        IF ok /\ loc[self].gpio \notin gpioHeld
        THEN /\ gpioHeld' = gpioHeld \cup {loc[self].gpio}
             /\ pc' = [pc EXCEPT ![self] = "r_direction"]
             /\ UNCHANGED loc
        ELSE /\ Return(self, [loc[self] EXCEPT !.failed = "gpio_request"], -EINVAL)
             /\ UNCHANGED gpioHeld
    /\ UNCHANGED <<clock, env, registered_gpios, heap, files, irqActs, misuse, hpc, hloc,
                   hist, events, calls>>

\* lines 262-267: gpio_direction_input
RegDirection(self) ==
    /\ pc[self] = "r_direction"
    /\ \E ok \in BOOLEAN :
        IF ok
        THEN /\ pc' = [pc EXCEPT ![self] = "r_alloc"]
             /\ UNCHANGED loc
        ELSE /\ pc' = [pc EXCEPT ![self] = UnwindAfter("gpio_direction_input")]
             /\ loc' = [loc EXCEPT ![self].failed = "gpio_direction_input"]
    /\ UNCHANGED <<clock, env, registered_gpios, heap, kernel, hpc, hloc, hist, events, calls>>

\* lines 269-285: the gpio_data, its name and its write buffer are allocated
\* and filled in, and the gpio_data is entered in registered_gpios.  No
\* kmalloc is checked: a NULL gpioData is dereferenced at line 274, a NULL
\* name is written to at line 272, a NULL writeBuf is stored.
RegAlloc(self) ==
    /\ pc[self] = "r_alloc"
    /\ \E fail \in AllocFailures({"gpioData", "class_attr_name", "writeBuf"}) :
        /\ env' = [env EXCEPT !.allocFails = IF fail = "none" THEN @ ELSE @ - 1]
        /\ IF fail = "gpioData"
           THEN /\ pc' = [pc EXCEPT ![self] = "oops"]
                /\ UNCHANGED <<registered_gpios, heap, hist>>
           ELSE IF fail = "class_attr_name"
           THEN /\ pc' = [pc EXCEPT ![self] = "oops"]
                /\ gd' = Append(gd, [NewGpioData(loc[self].gpio, UNINIT, UNINIT)
                                        EXCEPT !.name = <<>>])
                /\ hist' = Append(hist, NewHist(loc[self].gpio, clock))
                /\ UNCHANGED <<registered_gpios, nodes, bufs>>
           ELSE /\ bufs' = IF fail = "writeBuf" THEN bufs ELSE Append(bufs, NewBuf)
                /\ gd' = Append(gd, NewGpioData(loc[self].gpio,
                                    IF fail = "writeBuf" THEN NULL ELSE Len(bufs) + 1,
                                    clock))
                /\ hist' = Append(hist, NewHist(loc[self].gpio, clock))
                /\ registered_gpios' = [registered_gpios EXCEPT
                                            ![loc[self].gpio] = Len(gd) + 1]
                /\ pc' = [pc EXCEPT ![self] = "r_file"]
                /\ UNCHANGED nodes
    /\ UNCHANGED <<clock, kernel, hpc, hloc, loc, events, calls>>

\* lines 287-292: class_create_file
RegCreateFile(self) ==
    /\ pc[self] = "r_file"
    /\ IF Reg(self) = NULL THEN Killed(self)
       ELSE
            /\ LET d == registered_gpios[loc[self].gpio]
               IN  \E ok \in BOOLEAN :
                    IF ok /\ \A f \in files : f.name # gd[d].name
                    THEN /\ files' = files \cup {[name |-> gd[d].name, attr |-> d]}
                         /\ pc' = [pc EXCEPT ![self] = "r_irq"]
                         /\ UNCHANGED loc
                    ELSE /\ pc' = [pc EXCEPT ![self] = UnwindAfter("class_create_file")]
                         /\ loc' = [loc EXCEPT ![self].failed = "class_create_file"]
                         /\ UNCHANGED files
            /\ UNCHANGED <<clock, env, registered_gpios, heap, gpioHeld, irqActs, misuse, hpc,
                           hloc, hist, events, calls>>

\* lines 294-305: gpio_to_irq and request_irq; on success the call returns count
RegRequestIrq(self) ==
    /\ pc[self] = "r_irq"
    /\ IF Reg(self) = NULL THEN Killed(self)
       ELSE
            /\ LET gpio == loc[self].gpio
                   d    == registered_gpios[gpio]
                   irq  == gpio_to_irq(gpio)
               IN  /\ gd' = [gd EXCEPT ![d].irq_number = irq]
                   /\ \E ok \in BOOLEAN :
                       IF ok
                       THEN /\ irqActs' = irqActs \cup {[irq |-> irq, dev |-> d]}
                            /\ Return(self, loc[self], CountOf(loc[self].input))
                       ELSE /\ pc' = [pc EXCEPT ![self] = UnwindAfter("request_irq")]
                            /\ loc' = [loc EXCEPT ![self].failed = "request_irq"]
                            /\ UNCHANGED irqActs
            /\ UNCHANGED <<clock, env, registered_gpios, nodes, bufs, gpioHeld, files, misuse,
                           hpc, hloc, hist, events, calls>>

\* class_remove_file: sysfs removes the file once no read of it is in progress
class_remove_file(self, d) ==
    /\ \A p \in Procs : ~(pc[p] \in DrainPcs /\ loc[p].attr = d)
    /\ IF \E f \in files : f.attr = d
       THEN /\ files' = {f \in files : f.attr # d}
            /\ UNCHANGED misuse
       ELSE /\ misuse' = misuse \cup {<<"class_remove_file", d>>}
            /\ UNCHANGED files

\* gpio_free: gpiolib releases the gpio
gpio_free(gpio) ==
    IF gpio \in gpioHeld
    THEN /\ gpioHeld' = gpioHeld \ {gpio}
         /\ UNCHANGED misuse
    ELSE /\ misuse' = misuse \cup {<<"gpio_free", gpio>>}
         /\ UNCHANGED gpioHeld

\* mutant: the action is removed without waiting for the running handler
free_irq_nowait(irq, dev) ==
    IF [irq |-> irq, dev |-> dev] \in irqActs
    THEN /\ irqActs' = irqActs \ {[irq |-> irq, dev |-> dev]}
         /\ UNCHANGED misuse
    ELSE /\ misuse' = misuse \cup {<<"free_irq", irq>>}
         /\ UNCHANGED irqActs

\* free_irq: the action is removed once no handler of the line is running
free_irq(irq, dev) ==
    /\ irq \in Lines => hpc[irq] = "idle"
    /\ IF [irq |-> irq, dev |-> dev] \in irqActs
       THEN /\ irqActs' = irqActs \ {[irq |-> irq, dev |-> dev]}
            /\ UNCHANGED misuse
       ELSE /\ misuse' = misuse \cup {<<"free_irq", irq>>}
            /\ UNCHANGED irqActs

\* lines 308-309: GpioInterruptSetupError
RegUnwindFile(self) ==
    /\ pc[self] = "r_unwind_file"
    /\ IF Reg(self) = NULL THEN Killed(self)
       ELSE
            /\ class_remove_file(self, registered_gpios[loc[self].gpio])
            /\ pc' = [pc EXCEPT ![self] = "r_unwind_data"]
            /\ UNCHANGED <<clock, env, registered_gpios, heap, gpioHeld, irqActs, hpc, hloc, loc,
                           hist, events, calls>>

\* lines 310-311: GpioClassAttributeFileError
RegUnwindData(self) ==
    /\ pc[self] = "r_unwind_data"
    /\ free_gpio_data(loc[self].gpio)
    /\ pc' = [pc EXCEPT ![self] = "r_unwind_gpio"]
    /\ UNCHANGED <<clock, env, kernel, hpc, hloc, loc, hist, events, calls>>

\* lines 312-315: GpioDirectionSetupError
RegUnwindGpio(self) ==
    /\ pc[self] = "r_unwind_gpio"
    /\ gpio_free(loc[self].gpio)
    /\ Return(self, loc[self], -1)
    /\ UNCHANGED <<clock, env, registered_gpios, heap, files, irqActs, hpc, hloc, hist,
                   events, calls>>

\* lines 325-346: the input is parsed and checked
UnregisterBegin(self) ==
    /\ MayStart(self)
    /\ MayWrite
    /\ \E input \in Written :
        LET l == StoreCall("unregister", input)
        IN  IF input = BAD THEN Return(self, l, -EINVAL)
            ELSE IF ~InRange(input) THEN Return(self, l, -EINVAL)
            ELSE IF NotRegistered(input) THEN Return(self, l, -1)
            ELSE /\ pc' = [pc EXCEPT ![self] = "u_irq"]
                 /\ loc' = [loc EXCEPT ![self] = l]
    /\ calls' = calls + 1
    /\ UNCHANGED <<clock, env, registered_gpios, heap, kernel, hpc, hloc, hist, events>>

\* lines 348-349: free_irq
UnregFreeIrq(self) ==
    /\ pc[self] = "u_irq"
    /\ IF Reg(self) = NULL THEN Killed(self)
       ELSE
            /\ LET d == registered_gpios[loc[self].gpio]
               IN  free_irq(gd[d].irq_number, d)
            /\ pc' = [pc EXCEPT ![self] = "u_file"]
            /\ UNCHANGED <<clock, env, registered_gpios, heap, gpioHeld, files, hpc, hloc, loc,
                           hist, events, calls>>

\* lines 351-352: class_remove_file
UnregRemoveFile(self) ==
    /\ pc[self] = "u_file"
    /\ IF Reg(self) = NULL THEN Killed(self)
       ELSE
            /\ class_remove_file(self, registered_gpios[loc[self].gpio])
            /\ pc' = [pc EXCEPT ![self] = "u_gpio"]
            /\ UNCHANGED <<clock, env, registered_gpios, heap, gpioHeld, irqActs, hpc, hloc, loc,
                           hist, events, calls>>

\* lines 354-355: gpio_free
UnregGpioFree(self) ==
    /\ pc[self] = "u_gpio"
    /\ gpio_free(loc[self].gpio)
    /\ pc' = [pc EXCEPT ![self] = "u_data"]
    /\ UNCHANGED <<clock, env, registered_gpios, heap, files, irqActs, hpc, hloc, loc,
                   hist, events, calls>>

\* lines 357-360: free_gpio_data; the call returns count
UnregFreeData(self) ==
    /\ pc[self] = "u_data"
    /\ free_gpio_data(loc[self].gpio)
    /\ Return(self, loc[self], CountOf(loc[self].input))
    /\ UNCHANGED <<clock, env, kernel, hpc, hloc, hist, events, calls>>

(***************************************************************************)
(* irqts_exit: the module is removed.                                      *)
(***************************************************************************)
\* lines 413-415: the first registered gpio from i on, GPIO_COUNT if none
NextRegistered(i) ==
    IF \E g \in Gpios : g >= i /\ registered_gpios[g] # NULL
    THEN CHOOSE g \in Gpios :
            /\ g >= i /\ registered_gpios[g] # NULL
            /\ \A h \in Gpios : (h >= i /\ registered_gpios[h] # NULL) => g <= h
    ELSE GPIO_COUNT

\* lines 413-423: the loop goes on with gpio i; after the last one
\* class_destroy ends the module
ExitLoop(self, l, i) ==
    /\ pc' = [pc EXCEPT ![self] = IF i < GPIO_COUNT THEN "x_irq" ELSE "unloaded"]
    /\ loc' = [loc EXCEPT ![self] = [l EXCEPT !.gpio = i]]

\* lines 409-415: rmmod, with no register or unregister call in progress
ExitBegin(self) ==
    /\ MayStart(self)
    /\ CtlIdle
    /\ ExitLoop(self, [NoCall EXCEPT !.op = "exit"], NextRegistered(0))
    /\ calls' = calls + 1
    /\ UNCHANGED <<clock, env, registered_gpios, heap, kernel, hpc, hloc, hist, events>>

\* line 417: free_irq
ExitFreeIrq(self) ==
    /\ pc[self] = "x_irq"
    /\ free_irq(gd[Reg(self)].irq_number, Reg(self))
    /\ pc' = [pc EXCEPT ![self] = "x_file"]
    /\ UNCHANGED <<clock, env, registered_gpios, heap, gpioHeld, files, hpc, hloc, loc,
                   hist, events, calls>>

\* line 418: class_remove_file
ExitRemoveFile(self) ==
    /\ pc[self] = "x_file"
    /\ class_remove_file(self, Reg(self))
    /\ pc' = [pc EXCEPT ![self] = "x_gpio"]
    /\ UNCHANGED <<clock, env, registered_gpios, heap, gpioHeld, irqActs, hpc, hloc, loc,
                   hist, events, calls>>

\* line 419: gpio_free
ExitGpioFree(self) ==
    /\ pc[self] = "x_gpio"
    /\ gpio_free(loc[self].gpio)
    /\ pc' = [pc EXCEPT ![self] = "x_data"]
    /\ UNCHANGED <<clock, env, registered_gpios, heap, files, irqActs, hpc, hloc, loc,
                   hist, events, calls>>

\* lines 420-423: free_gpio_data, and on to the next registered gpio
ExitFreeData(self) ==
    /\ pc[self] = "x_data"
    /\ free_gpio_data(loc[self].gpio)
    /\ ExitLoop(self, loc[self], NextRegistered(loc[self].gpio + 1))
    /\ UNCHANGED <<clock, env, kernel, hpc, hloc, hist, events, calls>>

(***************************************************************************)
(* The driver with the register and unregister calls made one at a time;   *)
(* interrupts and reads of the gpio files run concurrently with them and   *)
(* with each other.                                                        *)
(***************************************************************************)
Next ==
    \/ \E l \in RunnableLines : HEvent(l)
    \/ \E l \in RunnableLines : HLock(l)
    \/ \E l \in RunnableLines : HLockInterrupted(l)
    \/ \E l \in RunnableLines : HAppend(l)
    \/ \E l \in RunnableLines : HEvict(l)
    \/ \E self \in Runnable : DBegin(self)
    \/ \E self \in Runnable : DLock(self)
    \/ \E self \in Runnable : DLockInterrupted(self)
    \/ \E self \in Runnable : DPop(self)
    \/ \E self \in Runnable : DShow(self)
    \/ \E self \in Runnable : RegisterBegin(self)
    \/ \E self \in Runnable : RegRequest(self)
    \/ \E self \in Runnable : RegDirection(self)
    \/ \E self \in Runnable : RegAlloc(self)
    \/ \E self \in Runnable : RegCreateFile(self)
    \/ \E self \in Runnable : RegRequestIrq(self)
    \/ \E self \in Runnable : RegUnwindFile(self)
    \/ \E self \in Runnable : RegUnwindData(self)
    \/ \E self \in Runnable : RegUnwindGpio(self)
    \/ \E self \in Runnable : UnregisterBegin(self)
    \/ \E self \in Runnable : UnregFreeIrq(self)
    \/ \E self \in Runnable : UnregRemoveFile(self)
    \/ \E self \in Runnable : UnregGpioFree(self)
    \/ \E self \in Runnable : UnregFreeData(self)
    \/ \E self \in Runnable : ExitBegin(self)
    \/ \E self \in Runnable : ExitFreeIrq(self)
    \/ \E self \in Runnable : ExitRemoveFile(self)
    \/ \E self \in Runnable : ExitGpioFree(self)
    \/ \E self \in Runnable : ExitFreeData(self)

Spec == Init /\ [][Next]_vars

\* the same driver with an edge train that has long gaps
InitClock == Loaded /\ env = [Quiet EXCEPT !.longGaps = MaxLongGaps]

SpecClock == InitClock /\ [][Next]_vars

\* the same driver with register and unregister written concurrently
InitRace == Loaded /\ env = [Quiet EXCEPT !.overlap = TRUE]

SpecRace == InitRace /\ [][Next]_vars

\* the same driver with kmalloc calls that fail
InitAlloc == Loaded /\ env = [Quiet EXCEPT !.allocFails = MaxAllocFails]

SpecAlloc == InitAlloc /\ [][Next]_vars

\* the same driver with its interrupt arriving on the cpus that run the calls
InitIrq == Loaded /\ env = [Quiet EXCEPT !.sameCpu = TRUE]

SpecIrq == InitIrq /\ [][Next]_vars

\* the same driver fed the edges of the worked example
InitScenario == Loaded /\ env = [Quiet EXCEPT !.scenario = TRUE]

SpecScenario == InitScenario /\ [][Next]_vars

(***************************************************************************)
(* gpio_show's serialization on its own: a read that has taken a record    *)
(* off the queue of a registered gpio prints it.  The timings of the       *)
(* record are unsigned ints of every number of digits a page can or cannot *)
(* hold.                                                                   *)
(***************************************************************************)
ShowValues == {0, 10, 100, 10000, 100000, 1000000, 100000000, 2147483647}

\* the driver with gpio registered, a record of the given timings popped by
\* the read of context self, and nothing else going on
Popped(gpio, self, timings) ==
    /\ clock = 0
    /\ env = Quiet
    /\ registered_gpios = [g \in Gpios |-> IF g = gpio THEN 1 ELSE NULL]
    /\ gd = <<[NewGpioData(gpio, 2, 0) EXCEPT !.irq_number = gpio_to_irq(gpio)]>>
    /\ nodes = <<[timings |-> 1, next |-> NULL, frees |-> 0]>>
    /\ bufs = <<[data |-> timings, frees |-> 0], NewBuf>>
    /\ gpioHeld = {gpio}
    /\ files = {[name |-> AttrName(gpio), attr |-> 1]}
    /\ irqActs = {[irq |-> gpio_to_irq(gpio), dev |-> 1]}
    /\ misuse = {}
    /\ hpc = [l \in Lines |-> "idle"]
    /\ hloc = [l \in Lines |-> HIdle]
    /\ pc = [p \in Procs |-> IF p = self THEN "d_show" ELSE "idle"]
    /\ loc = [p \in Procs |->
                IF p = self
                THEN [NoCall EXCEPT !.op = "show", !.gpio = gpio, !.attr = 1,
                                    !.timingsNode = 1]
                ELSE NoCall]
    /\ hist = <<[NewHist(gpio, 0) EXCEPT
                    !.completed = <<[node |-> 1, vals |-> timings]>>,
                    !.appended = <<1>>, !.popped = <<1>>]>>
    /\ events = MaxEvents
    /\ calls = MaxCalls

InitShow ==
    \E timings \in [0 .. (BUFFER_SIZE - 1) -> ShowValues] :
        Popped(GPIO_COUNT - 1, 1, timings)

NextShow == \E self \in Runnable : DShow(self)

SpecShow == InitShow /\ [][NextShow]_vars

(***************************************************************************)
(* Properties.                                                             *)
(***************************************************************************)
\* the gpio_data objects that are allocated and not freed
Live == {d \in DOMAIN gd : gd[d].frees = 0}

\* the registered gpio_data objects
Registered == {registered_gpios[g] : g \in Gpios} \ {NULL}

\* the nodes of the completed records of gpio_data d, in completion order
CompletedNodes(d) == [i \in DOMAIN hist[d].completed |-> hist[d].completed[i].node]

\* the position of x in the sequence s (0 when it is not in s)
PosIn(s, x) == IF \E i \in DOMAIN s : s[i] = x THEN CHOOSE i \in DOMAIN s : s[i] = x ELSE 0

\* s holds elements of t only, each once, in the order they have in t
OrderedIn(s, t) ==
    /\ \A i \in DOMAIN s : PosIn(t, s[i]) > 0
    /\ \A i, j \in DOMAIN s : i < j => PosIn(t, s[i]) < PosIn(t, s[j])

\* the last n elements of s
LastOf(s, n) == SubSeq(s, Len(s) - n + 1, Len(s))

\* C1: for every registered pin, whenever the pin's lock is free, its read
\* queue holds at most MAX_READ_QUEUE_SIZE records (counted along the list
\* and by readQueueSize), whatever events and reads came before.
C1_QueueBounded ==
    \A d \in Registered :
        gd[d].readQueueLock = NULL =>
            /\ Len(QueueOf(gd[d], nodes)) <= MAX_READ_QUEUE_SIZE
            /\ gd[d].readQueueSize <= MAX_READ_QUEUE_SIZE

\* C1 witness: a full queue with the lock free, after an eviction and a read
C1_Witness ==
    \E d \in Registered :
        /\ gd[d].readQueueLock = NULL
        /\ Len(QueueOf(gd[d], nodes)) = MAX_READ_QUEUE_SIZE
        /\ hist[d].evicted # <<>>
        /\ hist[d].popped # <<>>

\* the text gpio_show prints for a whole record
RecordText(vals) == ShowLoop(vals, 0, 0, <<>>).out

\* the timings record n of gpio_data d held when the handler completed it
CompletedVals(d, n) == hist[d].completed[PosIn(CompletedNodes(d), n)].vals

\* C2: the reads of one pin take the records off the queue in the order the
\* handler completed and appended them; while nothing was evicted they are
\* exactly the first records appended, r1..rN; and each read returns the
\* timings its record held when it was completed.
C2_Fifo ==
    \A d \in DOMAIN gd :
        /\ OrderedIn(hist[d].appended, CompletedNodes(d))
        /\ OrderedIn(hist[d].popped, hist[d].appended)
        /\ hist[d].evicted = <<>> =>
               hist[d].popped = SubSeq(hist[d].appended, 1, Len(hist[d].popped))
        /\ \A i \in DOMAIN hist[d].returned :
               LET r == hist[d].returned[i]
               IN  /\ PosIn(hist[d].popped, r.node) > 0
                   /\ r.out = RecordText(CompletedVals(d, r.node))
                   /\ r.ret = Len(r.out)

\* C2 witness: N = MAX_READ_QUEUE_SIZE records were appended to the empty
\* queue and then N reads returned them
C2_Witness ==
    \E d \in DOMAIN gd :
        /\ Len(hist[d].appended) = MAX_READ_QUEUE_SIZE
        /\ hist[d].evicted = <<>>
        /\ Len(hist[d].returned) = MAX_READ_QUEUE_SIZE
        /\ \A i \in DOMAIN hist[d].returned :
               hist[d].returned[i].node = hist[d].appended[i]
        /\ hist[d].returned[1].out # hist[d].returned[2].out

\* every record that left the queue by eviction was freed once
EvictedFreedOnce(d) ==
    \A i \in DOMAIN hist[d].evicted :
        LET n == hist[d].evicted[i]
        IN  nodes[n].frees = 1 /\ bufs[nodes[n].timings].frees = 1

\* C3: with no read in between, once capacity + k records were appended
\* (k >= 0) the queue holds the capacity most recent ones, oldest first, the
\* k oldest were evicted, and each evicted record (node and timings) was
\* freed exactly once; no object is ever freed twice.
C3_Overflow ==
    /\ \A n \in DOMAIN nodes : nodes[n].frees <= 1
    /\ \A b \in DOMAIN bufs : bufs[b].frees <= 1
    /\ \A d \in DOMAIN gd : EvictedFreedOnce(d)
    /\ \A d \in Registered :
        LET h == hist[d]
        IN  (/\ gd[d].readQueueLock = NULL
             /\ h.popped = <<>>
             /\ Len(h.appended) >= MAX_READ_QUEUE_SIZE)
            => /\ QueueOf(gd[d], nodes) = LastOf(h.appended, MAX_READ_QUEUE_SIZE)
               /\ h.evicted = SubSeq(h.appended, 1, Len(h.appended) - MAX_READ_QUEUE_SIZE)
               /\ \A i \in DOMAIN QueueOf(gd[d], nodes) :
                      nodes[QueueOf(gd[d], nodes)[i]].frees = 0

\* C3 witness: more records than the capacity were appended with no read
C3_Witness ==
    \E d \in Registered :
        /\ gd[d].readQueueLock = NULL
        /\ hist[d].popped = <<>>
        /\ Len(hist[d].appended) >= MAX_READ_QUEUE_SIZE + 2

RECURSIVE Flatten(_)
\* the timings of a sequence of completed records, one after the other
Flatten(recs) ==
    IF recs = <<>> THEN <<>>
    ELSE Flatten(SubSeq(recs, 1, Len(recs) - 1))
         \o [i \in 1 .. BUFFER_SIZE |-> recs[Len(recs)].vals[i - 1]]

\* what the active buffer of gpio_data d holds: the writeI timings written
ActiveTimings(d) == [i \in 1 .. gd[d].writeI |-> bufs[gd[d].writeBuf].data[i - 1]]

\* the time between event i of gpio_data d and the one before it (the
\* registration for the first), in whole microseconds
IntervalUs(d, i) ==
    (hist[d].ts[i] - (IF i = 1 THEN hist[d].t0 ELSE hist[d].ts[i - 1])) \div NSEC_PER_USEC

\* C4: for a pin registered at t0 and fed events at t1 < t2 < ... < tM, the
\* records completed so far, in completion order, followed by the active
\* buffer, hold exactly t1-t0, t2-t1, ..., tM-t(M-1) (in microseconds), in
\* records of BUFFER_SIZE timings each.
C4_IntervalLaw ==
    \A d \in Live :
        /\ Flatten(hist[d].completed) \o ActiveTimings(d)
               = [i \in 1 .. Len(hist[d].ts) |-> IntervalUs(d, i)]
        /\ Len(hist[d].completed) = Len(hist[d].ts) \div BUFFER_SIZE
        /\ gd[d].writeI = Len(hist[d].ts) % BUFFER_SIZE

\* the nodes the reads in progress hold
InFlight(d) == {loc[p].timingsNode : p \in {q \in Procs : pc[q] = "d_show" /\ loc[q].attr = d}}

NoRepeat(s) == \A i, j \in DOMAIN s : i # j => s[i] # s[j]

\* C5: no record is returned by more than one read: no node is taken off the
\* queue twice, a node taken off is no longer in the queue, two reads in
\* progress never hold the same node, and the reads that returned each
\* returned another node, which no read in progress holds.
C5_NoDuplication ==
    \A d \in DOMAIN gd :
        LET h        == hist[d]
            retNodes == [i \in DOMAIN h.returned |-> h.returned[i].node]
        IN  /\ NoRepeat(h.popped)
            /\ NoRepeat(retNodes)
            /\ \A p, q \in Procs :
                   (p # q /\ pc[p] = "d_show" /\ pc[q] = "d_show")
                       => loc[p].timingsNode # loc[q].timingsNode
            /\ Range(retNodes) \cap InFlight(d) = {}
            /\ Range(h.popped) = Range(retNodes) \cup InFlight(d)
            /\ d \in Live => Range(h.popped) \cap Range(QueueOf(gd[d], nodes)) = {}

\* C5 witness: two reads of the same pin are in progress, each with a record,
\* after another read returned one
C5_Witness ==
    \E d \in DOMAIN gd :
        /\ Cardinality(InFlight(d)) = 2
        /\ \A p \in Procs : pc[p] = "d_show"
        /\ hist[d].returned # <<>>

\* the driver's state and the collaborators', without the callers' contexts
driver == <<clock, registered_gpios, gd, nodes, bufs, gpioHeld, files, irqActs,
            misuse, hpc, hloc, hist>>

\* the user context that starts a call in this step
Starter == CHOOSE p \in Procs : pc[p] = "idle" /\ \A q \in Procs : q < p => pc[q] # "idle"

\* this step starts a call of op
Starts(op) == calls' = calls + 1 /\ loc'[Starter].op = op

\* this step is the one in which the call of context p returns ret
Returns(p, ret) == pc[p] # pc'[p] /\ pc'[p] = "idle" /\ loc'[p].ret = ret

\* the gpio a gpio_data was made for
GpioOf(d) == ShowGpioId(gd[d].name)

\* every gpio has at most one live gpio_data, the registered one
OneLivePerPin ==
    /\ \A d \in Live : registered_gpios[GpioOf(d)] = d
    /\ \A g \in Gpios : registered_gpios[g] = NULL \/ registered_gpios[g] \in Live

\* a register of a registered gpio and an unregister of an unregistered one
\* return -1 in their first step and change nothing
C6_RejectStep ==
    /\ (/\ Starts("register")
        /\ loc'[Starter].input \in Gpios
        /\ registered_gpios[loc'[Starter].input] # NULL)
       => (pc'[Starter] = "idle" /\ loc'[Starter].ret = -1 /\ UNCHANGED driver)
    /\ (/\ Starts("unregister")
        /\ loc'[Starter].input \in Gpios
        /\ registered_gpios[loc'[Starter].input] = NULL)
       => (pc'[Starter] = "idle" /\ loc'[Starter].ret = -1 /\ UNCHANGED driver)

\* C6: register of a gpio that has a live gpio_data fails with -1
\* (AlreadyRegistered) and unregister of a gpio that has none fails with -1
\* (NotRegistered), both leaving the registry, the gpio_data and the
\* collaborators unchanged; a gpio has at most one live gpio_data at any time.
C6_RejectDuplicates == []OneLivePerPin /\ [][C6_RejectStep]_vars

\* C6 witness: a register of the registered gpio has returned -1 with no step
\* of it having failed
C6_Witness ==
    \E p \in Procs :
        /\ pc[p] = "idle" /\ loc[p].op = "register" /\ loc[p].failed = "none"
        /\ loc[p].ret = -1
        /\ registered_gpios[loc[p].input] # NULL

\* gpio is held with its class file and its interrupt, by its registered data
FullyRegistered(gpio) ==
    LET d == registered_gpios[gpio]
    IN  /\ d # NULL
        /\ d \in Live
        /\ gpio \in gpioHeld
        /\ \E f \in files : f.attr = d
        /\ [irq |-> gpio_to_irq(gpio), dev |-> d] \in irqActs

\* the steps of register_store: out of range is refused at once and changes
\* nothing; an unregistered gpio in range goes on to gpio_request; a call none
\* of whose collaborators failed goes on from step to step and returns count
C7_RegisterStep ==
    /\ (Starts("register") /\ loc'[Starter].input >= GPIO_COUNT)
       => (pc'[Starter] = "idle" /\ loc'[Starter].ret = -EINVAL /\ UNCHANGED driver)
    /\ (/\ Starts("register")
        /\ loc'[Starter].input \in Gpios
        /\ registered_gpios[loc'[Starter].input] = NULL)
       => (pc'[Starter] = "r_request" /\ UNCHANGED driver)
    /\ \A p \in Procs :
        (pc[p] \in RegPcs /\ pc'[p] # pc[p] /\ loc'[p].failed = "none")
        => \/ pc'[p] \in {"r_direction", "r_alloc", "r_file", "r_irq"}
           \/ /\ Returns(p, CountOf(loc[p].input))
              /\ FullyRegistered(loc[p].input)'

\* C7: register fails with -EINVAL (OutOfRange) for every gpio >= GPIO_COUNT,
\* touching neither the registry nor a collaborator, and succeeds for every
\* unregistered gpio below GPIO_COUNT when gpio_request, gpio_direction_input,
\* class_create_file and request_irq succeed.
C7_RegisterRange == [][C7_RegisterStep]_vars

\* C7 witness: the register of the last gpio in range has succeeded
C7_Witness ==
    \E p \in Procs :
        /\ pc[p] = "idle" /\ loc[p].op = "register"
        /\ loc[p].input = GPIO_COUNT - 1
        /\ loc[p].ret = CountOf(loc[p].input)
        /\ FullyRegistered(loc[p].input)

\* the nodes and the timing buffers ever allocated for gpio_data d
NodesOf(d) == Range(CompletedNodes(d))
BufsOf(d) == {nodes[n].timings : n \in NodesOf(d)} \cup {gd[d].writeBuf}

\* gpio_data d and all that was allocated for it is freed, each object once
ReleasedOnce(d) ==
    /\ gd[d].frees = 1
    /\ gd[d].nameFrees = 1
    /\ \A n \in NodesOf(d) : nodes[n].frees = 1
    /\ \A b \in BufsOf(d) : bufs[b].frees = 1

\* nothing is held for gpio: no registry entry, no gpio, no file, no interrupt,
\* no memory, and no release was made of something not held
NothingHeld(gpio) ==
    /\ registered_gpios[gpio] = NULL
    /\ gpio \notin gpioHeld
    /\ \A f \in files : f.name # AttrName(gpio)
    /\ \A a \in irqActs : a.irq # gpio_to_irq(gpio)
    /\ misuse = {}
    /\ \A d \in DOMAIN gd : GpioOf(d) = gpio => ReleasedOnce(d)

\* the step in which unregister_store returns count leaves nothing held
C8_UnregisterStep ==
    \A p \in Procs :
        (pc[p] \in UnregPcs /\ Returns(p, CountOf(loc[p].input)))
        => NothingHeld(loc[p].input)'

\* C8: after a successful register and, with any events and reads in between,
\* the unregister of the same gpio, the registry entry is empty again and the
\* active buffer, every record, the class file, the gpio and the interrupt
\* are released, each exactly once.
C8_RoundTrip == [][C8_UnregisterStep]_vars

\* C8 witness: an unregister has returned count for a gpio_data that
\* completed records, had one read and still had one queued
C8_Witness ==
    \E p \in Procs, d \in DOMAIN gd :
        /\ pc[p] = "idle" /\ loc[p].op = "unregister"
        /\ loc[p].ret = CountOf(loc[p].input)
        /\ GpioOf(d) = loc[p].input
        /\ NothingHeld(loc[p].input)
        /\ hist[d].returned # <<>>
        /\ Len(hist[d].appended) > Len(hist[d].popped) + Len(hist[d].evicted)

\* the gpio_data the register call of context p made, NULL before it made one
MadeBy(p) == registered_gpios[loc[p].gpio]

\* a step of register_store releases only what was acquired last: the class
\* file when no interrupt is attached, the gpio_data when its file is gone,
\* the gpio when its gpio_data is gone
ReverseOrder(p) ==
    LET gpio == loc[p].gpio
        d    == MadeBy(p)
    IN  /\ files' # files =>
               \A a \in irqActs : a.dev # d
        /\ registered_gpios'[gpio] # registered_gpios[gpio] =>
               /\ \A a \in irqActs : a.dev # d
               /\ \A f \in files : f.attr # d
        /\ gpioHeld' # gpioHeld =>
               /\ registered_gpios[gpio] = NULL
               /\ \A a \in irqActs : a.irq # gpio_to_irq(gpio)
               /\ \A f \in files : f.name # AttrName(gpio)

\* the cleanup steps of register_store release in reverse order, and the
\* step in which it returns an error leaves nothing held
C9_UnwindStep ==
    \A p \in Procs :
        /\ (pc[p] \in {"r_unwind_file", "r_unwind_data", "r_unwind_gpio"} /\ pc'[p] # pc[p])
           => ReverseOrder(p)
        /\ (pc[p] \in RegPcs /\ pc'[p] # pc[p] /\ pc'[p] = "idle"
                /\ loc'[p].failed # "none")
           => (loc'[p].ret < 0 /\ NothingHeld(loc[p].gpio)')

\* C9: when register fails after the gpio was acquired (gpio_direction_input,
\* class_create_file or request_irq fails), what was acquired so far is
\* released in reverse order of acquisition, and when the error is returned
\* the gpio is not registered and nothing the call acquired is still held.
C9_Unwind == [][C9_UnwindStep]_vars

\* C9 witness: register has returned -1 after request_irq failed
C9_Witness ==
    \E p \in Procs :
        /\ pc[p] = "idle" /\ loc[p].op = "register"
        /\ loc[p].failed = "request_irq"
        /\ loc[p].ret = -1
        /\ NothingHeld(loc[p].gpio)
        /\ \E d \in DOMAIN gd : GpioOf(d) = loc[p].gpio

\* a read that finds the queue empty returns 0 at once, releases the lock and
\* leaves the gpio_data, the queue nodes and the buffers as they were
C10_EmptyStep ==
    \A p \in Procs :
        LET d == registered_gpios[loc[p].gpio]
        IN  (pc[p] = "d_pop" /\ pc'[p] # pc[p] /\ QueueOf(gd[d], nodes) = <<>>)
            => /\ Returns(p, 0)
               /\ gd'[d] = [gd[d] EXCEPT !.readQueueLock = NULL]
               /\ gd[d].readQueueLock = p
               /\ UNCHANGED <<registered_gpios, nodes, bufs, kernel>>

\* a read that holds the lock is never made to wait: its next step is enabled
C10_NoWait == \A p \in Procs : pc[p] = "d_pop" => ENABLED DPop(p)

\* C10: a read of a registered pin whose queue is empty returns 0 (an empty
\* result, no error) without waiting for a record, releases the pin lock and
\* leaves the queue, the active buffer and lastInterruptTime unchanged.
C10_EmptyDrain == [][C10_EmptyStep /\ C10_NoWait]_vars

\* C10 witness: a read of a registered pin has returned 0
C10_Witness ==
    \E p \in Procs :
        /\ pc[p] = "idle" /\ loc[p].op = "show" /\ loc[p].ret = 0
        /\ registered_gpios[loc[p].gpio] # NULL
        /\ QueueOf(gd[registered_gpios[loc[p].gpio]], nodes) = <<>>
        /\ gd[registered_gpios[loc[p].gpio]].writeI > 0

\* this step starts a read of the file of a gpio that is not registered
\* (the file can outlive the gpio_data only when an unregister overlaps a
\* register), and the read is not killed by a fault
StartsUnregisteredShow ==
    /\ Starts("show")
    /\ pc'[Starter] # "oops"
    /\ loc'[Starter].gpio \in Gpios
    /\ registered_gpios[loc'[Starter].gpio] = NULL

\* C11: a read of the file of a gpio that is not registered returns at once
\* with an empty result, 0 bytes, and not with an error.
C11_UnregisteredDrainEmpty ==
    [][StartsUnregisteredShow => (pc'[Starter] = "idle" /\ loc'[Starter].ret = 0)]_vars

\* this step is a handler invocation in which a kmalloc of the rotation
\* (lines 103 and 107) fails
RotationAllocFails == events' = events + 1 /\ env'.allocFails < env.allocFails

\* the gpio_data is fit for the next handler invocation and the next read
WellFormedAfter(d) ==
    /\ gd'[d].writeBuf # NULL
    /\ gd'[d].writeI \in 0 .. (BUFFER_SIZE - 1)
    /\ QueueOf(gd'[d], nodes') = QueueOf(gd[d], nodes)

\* C12: when the kmalloc of the queue node or of the new write buffer fails
\* in a rotation, the handler does not dereference a NULL pointer and leaves
\* the gpio_data well formed: a write buffer, the write index within the
\* buffer, the queue as it was.
C12_AllocFailureTolerated ==
    [][RotationAllocFails => (~Panicked' /\ \A d \in Live : WellFormedAfter(d))]_vars

\* what the reads have returned: the text stored in the page and the count
AllReturned == UNION {Range(hist[d].returned) : d \in DOMAIN hist}

\* C13: whatever the timings of a record, gpio_show stores no more than
\* PAGE_SIZE bytes (the text and its terminating NUL) in the page and returns
\* a count of at most PAGE_SIZE.
C13_OutputBounded ==
    \A r \in AllReturned : Len(r.out) + 1 <= PAGE_SIZE /\ r.ret <= PAGE_SIZE

\* the gpio_data of the worked example: registered for the example's pin at
\* time 0, it has seen every edge of the example and lost no rotation to an
\* interrupted lock
ScenarioData ==
    {d \in DOMAIN gd :
        /\ hist[d].gpio \in ScenarioPins
        /\ hist[d].t0 = 0
        /\ hist[d].ts = [i \in DOMAIN ScenarioEdges |-> ScenarioEdges[i] * NSEC_PER_USEC]
        /\ hist[d].dropped = <<>>}

\* the intervals the example's edges make, the first one from the
\* registration: 0, 100, 150, 150
ScenarioIntervals ==
    [i \in DOMAIN ScenarioEdges |->
        ScenarioEdges[i] - (IF i = 1 THEN 0 ELSE ScenarioEdges[i - 1])]

\* record k of the example: intervals (k-1) * BUFFER_SIZE + 1 .. k * BUFFER_SIZE
ScenarioRecord(k) == SubSeq(ScenarioIntervals, (k - 1) * BUFFER_SIZE + 1, k * BUFFER_SIZE)

\* the records the example completes
ScenarioRecords == Len(ScenarioEdges) \div BUFFER_SIZE

RECURSIVE DecimalLines(_)
\* the numbers of a sequence in decimal, one a line
DecimalLines(vs) ==
    IF vs = <<>> THEN <<>>
    ELSE Digits(vs[1]) \o <<"\n">> \o DecimalLines(SubSeq(vs, 2, Len(vs)))

\* the timings of a buffer as a sequence
AsSeq(vals) == [i \in 1 .. BUFFER_SIZE |-> vals[i - 1]]

\* the handler completed the records expected of the example, and every read
\* that has returned printed the record it took, the k-th taken the k-th
ScenarioYields(d, expected) ==
    /\ Len(hist[d].completed) = Len(expected)
    /\ \A k \in DOMAIN hist[d].completed : AsSeq(hist[d].completed[k].vals) = expected[k]
    /\ \A i \in DOMAIN hist[d].returned :
           LET r == hist[d].returned[i]
               k == PosIn(hist[d].popped, r.node)
           IN  k \in DOMAIN expected /\ r.out = DecimalLines(expected[k])

\* a record is in the queue once the handler call of edge BUFFER_SIZE has
\* returned, another one after edge 2 * BUFFER_SIZE, and so on
ScenarioAvailable ==
    \A d \in DOMAIN gd :
        (/\ hist[d].gpio \in ScenarioPins
         /\ hist[d].dropped = <<>>
         /\ \A l \in Lines : hpc[l] = "idle")
        => Len(hist[d].appended) = Len(hist[d].ts) \div BUFFER_SIZE

\* a read that takes the lock after every record of the example was taken
\* returns 0
ScenarioLastRead ==
    \A p \in Procs :
        (/\ pc[p] = "d_pop" /\ pc'[p] # pc[p]
         /\ Reg(p) \in ScenarioData
         /\ Len(hist[Reg(p)].popped) = ScenarioRecords)
        => Returns(p, 0)

\* C14: after register of pin 3 at time 0 and edges at 0, 100, 250 and 400
\* us, with BUFFER_SIZE 2, a record is in the queue after the 2nd edge and
\* another after the 4th; the first read returns "0\n100\n" (the first
\* interval is measured from the registration), the second "150\n150\n",
\* and a third read returns 0 bytes.
C14_Scenario ==
    /\ [](ScenarioAvailable
          /\ \A d \in ScenarioData :
                ScenarioYields(d, [k \in 1 .. ScenarioRecords |-> ScenarioRecord(k)]))
    /\ [][ScenarioLastRead]_vars

\* C14 as stated: the first read returns [100,150], the second [150,150], a
\* third read returns 0 bytes.
C14_ScenarioAsStated ==
    /\ [](ScenarioAvailable
          /\ \A d \in ScenarioData : ScenarioYields(d, <<<<100, 150>>, <<150, 150>>>>))
    /\ [][ScenarioLastRead]_vars

\* C14 witness: both records of the example were read and returned, and a
\* read after them has returned 0
C14_Witness ==
    \E d \in ScenarioData :
        /\ Len(hist[d].returned) = ScenarioRecords
        /\ ScenarioRecords \in hist[d].empties

\* the handler invocations in progress
Running == {l \in Lines : hpc[l] \notin {"idle", "oops"}}

\* nothing of the gpio_data a handler invocation works on is freed: not the
\* gpio_data, not its write buffer, not a node of its queue, not the node the
\* invocation has made
NoFreeWhileRunning ==
    \A l \in Running :
        LET d == hloc[l].data
        IN  /\ gd[d].frees = 0
            /\ bufs[gd[d].writeBuf].frees = 0
            /\ \A n \in Range(QueueOf(gd[d], nodes)) \cup {hloc[l].timingsNode} :
                   nodes[n].frees = 0 /\ bufs[nodes[n].timings].frees = 0

\* a gpio_data is freed only with no interrupt action left for it, and a
\* handler invocation starts only on a gpio_data that has its action and is
\* not freed
DetachFirst ==
    \A d \in DOMAIN gd :
        /\ gd'[d].frees > gd[d].frees => \A a \in irqActs : a.dev # d
        /\ hist'[d].ts # hist[d].ts =>
               gd[d].frees = 0 /\ \E a \in irqActs : a.dev = d

\* C15: unregister_store and irqts_exit call free_irq before free_gpio_data:
\* no gpio_data, write buffer or queue node is freed while a handler
\* invocation for it is running, and no invocation starts for a gpio_data
\* after its free_irq.
C15_Quiescence == []NoFreeWhileRunning /\ [][DetachFirst]_vars

\* C15 witness: an unregister or the module exit is about to call free_irq
\* while the handler of its gpio is in the middle of a rotation
C15_Witness ==
    \E p \in Procs :
        /\ pc[p] \in {"u_irq", "x_irq"}
        /\ gpio_to_irq(loc[p].gpio) \in Running

\* the steps of a read up to an interrupted wait for the lock: the start of
\* the call and the return of -ERESTARTSYS
InterruptedReadStep(p) ==
    \/ Starts("show") /\ Starter = p
    \/ loc[p].op = "show" /\ Returns(p, -ERESTARTSYS)

\* such a step leaves the driver's memory as it is, comes from the wait for
\* the lock when it returns, and leaves the lock with the owner it had
C16_InterruptedStep ==
    \A p \in Procs :
        InterruptedReadStep(p) =>
            /\ UNCHANGED <<registered_gpios, heap, kernel, hist>>
            /\ Returns(p, -ERESTARTSYS) =>
                   /\ pc[p] = "d_lock"
                   /\ gd[Reg(p)].readQueueLock \notin {NULL, p}

\* C16: a read whose wait for the pin lock is interrupted returns
\* -ERESTARTSYS without the lock, and the call has changed nothing: the
\* queue has the records, the order and the size it would have had without
\* the call; no record is taken off, freed or half removed.
C16_InterruptedDrain == [][C16_InterruptedStep]_vars

\* C16 witness: a read has returned -ERESTARTSYS and the record that was in
\* the queue is still there
C16_Witness ==
    \E p \in Procs :
        /\ pc[p] = "idle" /\ loc[p].op = "show" /\ loc[p].ret = -ERESTARTSYS
        /\ Reg(p) # NULL
        /\ gd[Reg(p)].readQueueSize > 0
        /\ gd[Reg(p)].readQueueLock = NULL

\* the nodes made for gpio_data d that are not freed: in its queue, held by
\* the handler on its way to the queue, or held by a read that prints them
HeldNodes(d) ==
    {n \in Range(CompletedNodes(d)) : nodes[n].frees = 0}

\* the buffer of node n holds BUFFER_SIZE intervals, the ones it held when
\* the handler made the node
FullyFormed(d, n) ==
    LET data == bufs[nodes[n].timings].data
    IN  /\ DOMAIN data = 0 .. (BUFFER_SIZE - 1)
        /\ \A i \in DOMAIN data : data[i] \in 0 .. (UINT_MOD - 1)
        /\ data = CompletedVals(d, n)

\* C17: with the handler and the reads of a pin interleaved in any way,
\* every record in the queue and every record a read takes and returns holds
\* exactly BUFFER_SIZE intervals, all written before the record was queued;
\* the handler's write buffer is never the buffer of a record.
C17_RecordsComplete ==
    \A d \in DOMAIN gd :
        /\ Range(QueueOf(gd[d], nodes)) \cup InFlight(d) \subseteq Range(CompletedNodes(d))
        /\ \A n \in HeldNodes(d) :
               FullyFormed(d, n) /\ (gd[d].frees = 0 => gd[d].writeBuf # nodes[n].timings)
        /\ \A i \in DOMAIN hist[d].returned :
               LET r == hist[d].returned[i]
               IN  r.out = DecimalLines(AsSeq(CompletedVals(d, r.node)))

\* C17 witness: one record is in the queue and another is being printed by a
\* read while the handler has written into the next write buffer
C17_Witness ==
    \E d \in Live :
        /\ gd[d].readQueueSize > 0
        /\ InFlight(d) # {}
        /\ gd[d].writeI > 0
        /\ hist[d].returned # <<>>

\* the owner of the lock of gpio_data d can go on to release it: a read that
\* can take a step, or the handler past its wait
HolderCanRun(d) ==
    LET o == gd[d].readQueueLock
    IN  \/ o = NULL
        \/ o \in Runnable
        \/ o = IRQ_CTX /\ \E l \in RunnableLines : hpc[l] \in {"append", "evict"}

\* the gpio_data whose lock somebody waits for: a handler invocation at line
\* 111 or a read at line 172
Awaited ==
    {hloc[l].data : l \in {k \in Lines : hpc[k] = "lock"}}
    \cup {Reg(p) : p \in {q \in Procs : pc[q] = "d_lock" /\ Reg(q) # NULL}}

\* C18: with one edge stream and any number of reads on a pin, no state is a
\* deadlock: whenever a handler invocation or a read waits for the pin lock,
\* the lock is free or its holder can run on and release it, so that under
\* fair scheduling every invocation and every read returns.
C18_NoDeadlock == \A d \in Awaited : HolderCanRun(d)

\* a gpio_data the register call that made it has not finished: its
\* irq_number is not yet the number line 295 stores
PartiallyInitialized(d) == gd[d].irq_number = UNINIT

\* C19: register and unregister calls of one pin behave as mutually
\* exclusive, whatever reads and edges go on meanwhile: no call reads a
\* gpio_data that was freed or a slot that was cleared under it, nothing is
\* released twice or released when not held, and no unregister call works on a
\* gpio_data whose register call is still under way.
C19_MutualExclusion ==
    /\ \A p \in Procs : pc[p] # "oops"
    /\ \A l \in Lines : hpc[l] # "oops"
    /\ misuse = {}
    /\ \A d \in DOMAIN gd : gd[d].frees <= 1
    /\ \A p \in Procs :
        (pc[p] \in UnregPcs /\ Reg(p) # NULL) => ~PartiallyInitialized(Reg(p))

\* the read queue of gpio_data d is a well-formed list: readQueueSize counts
\* the nodes reachable from the head, the head is NULL exactly when there are
\* none, and the tail is the last of them, with no successor
QueueWellFormed(d) ==
    LET g == gd[d]
        q == QueueOf(g, nodes)
    IN  /\ g.readQueueSize = Len(q)
        /\ g.readQueue_head = NULL <=> g.readQueueSize = 0
        /\ q # <<>> => /\ g.readQueue_tail = q[Len(q)]
                       /\ nodes[g.readQueue_tail].next = NULL

\* C20: for every registered pin, whenever the pin lock is free the read
\* queue is well formed, and between handler invocations the write index is
\* in 0 .. BUFFER_SIZE - 1; this holds after any edges, rotations dropped at
\* an interrupted lock, evictions and reads.
C20_QueueWellFormed ==
    \A d \in Registered :
        /\ gd[d].readQueueLock = NULL => QueueWellFormed(d)
        /\ (\A l \in Running : hloc[l].data # d) =>
               gd[d].writeI \in 0 .. (BUFFER_SIZE - 1)

\* C20 witness: the lock of a registered pin is free with a record in the
\* queue, after a rotation was dropped, a record evicted and a record read
C20_Witness ==
    \E d \in Registered :
        /\ gd[d].readQueueLock = NULL
        /\ \A l \in Running : hloc[l].data # d
        /\ QueueOf(gd[d], nodes) # <<>>
        /\ hist[d].dropped # <<>>
        /\ hist[d].evicted # <<>>
        /\ hist[d].popped # <<>>

====
